---- MODULE Spec2Model ----
(***************************************************************************)
(* Model of the analytics and forecasting core of the Smart AI CFO API:    *)
(*   insights/analytics.py    expense_trends, top_vendors                  *)
(*   forecast/prophet_model.py prepare_data_for_prophet,                   *)
(*                             run_prophet_forecast                        *)
(*   api/app.py               forecast_expenses (the /forecast endpoint),  *)
(*                             the insights endpoints, upload_invoice      *)
(*                                                                         *)
(* A pandas DataFrame is a sequence of rows.  A raw cell is a tagged       *)
(* record, so that the coercions (to_datetime, to_numeric) are real        *)
(* conversions: None, text and typed values are different cells.           *)
(* Amounts are integers (no floating-point rounding is modelled).          *)
(***************************************************************************)
EXTENDS Integers, Sequences, FiniteSets, TLC

VARIABLES data, called, arg, result, response, temp_uploads, upload

vars == <<data, called, arg, result, response, temp_uploads, upload>>

(***************************************************************************)
(* Bounds of the model.                                                    *)
(***************************************************************************)
MaxLen == 3       \* records in one input list
MaxN == 2         \* largest n handed to top_vendors
MaxPeriods == 2   \* largest horizon handed to run_prophet_forecast

(***************************************************************************)
(* Raw cells.                                                              *)
(***************************************************************************)
\* an amount cell: None, a number, or text
NoneAmt == [k |-> "none", v |-> 0, s |-> ""]
Num(x) == [k |-> "num", v |-> x, s |-> ""]
Str(t) == [k |-> "str", v |-> 0, s |-> t]
NaN == [k |-> "nan", v |-> 0, s |-> ""]

\* a date cell: None, a datetime.date, or text; the text of a "str" cell reads
\* as the date y-m-d, and y = 0 stands for text that is no date ("n/a")
NoneDate == [k |-> "none", y |-> 0, m |-> 0, d |-> 0]
Date(y, m, d) == [k |-> "date", y |-> y, m |-> m, d |-> d]
DateStr(y, m, d) == [k |-> "str", y |-> y, m |-> m, d |-> d]
BadDateStr == [k |-> "str", y |-> 0, m |-> 0, d |-> 0]
NaT == [k |-> "nat", y |-> 0, m |-> 0, d |-> 0]
Timestamp(y, m, d) == [k |-> "ts", y |-> y, m |-> m, d |-> d]

\* the text of the numeric strings of the model
ParseFloat(t) == CASE t = "50" -> Num(50)
                   [] t = "100" -> Num(100)
                   [] OTHER -> NaN

\* pd.to_datetime(x, errors="coerce")
to_datetime(x) == IF x.k = "date" \/ (x.k = "str" /\ x.y # 0)
                  THEN Timestamp(x.y, x.m, x.d)
                  ELSE NaT

\* a coercion that puts 0 where there is no number
to_numeric_zero(x) == IF x.k = "num" THEN x ELSE Num(0)

\* pd.to_numeric(x, errors="coerce")
to_numeric(x) == CASE x.k = "num" -> x
                   [] x.k = "str" -> ParseFloat(x.s)
                   [] OTHER -> NaN

(***************************************************************************)
(* Sequences as DataFrames.                                                *)
(***************************************************************************)
RECURSIVE SelectRows(_, _)
\* the rows of df whose index is in keep, in row order
SelectRows(df, keep) ==
    IF df = <<>> THEN <<>>
    ELSE LET rest == SelectRows(Tail(df), {i - 1 : i \in keep \ {1}})
         IN IF 1 \in keep THEN <<Head(df)>> \o rest ELSE rest

\* DataFrame.head(n): the first n rows, all but the last -n rows when n < 0
head(df, k) ==
    LET cnt == IF k >= 0 THEN (IF k < Len(df) THEN k ELSE Len(df))
               ELSE (IF Len(df) + k > 0 THEN Len(df) + k ELSE 0)
    IN SubSeq(df, 1, cnt)

\* the first rows instead of the last
tail_first(df, k) ==
    LET cnt == IF k >= 0 THEN (IF k < Len(df) THEN k ELSE Len(df))
               ELSE (IF Len(df) + k > 0 THEN Len(df) + k ELSE 0)
    IN SubSeq(df, 1, cnt)

\* DataFrame.tail(n): the last n rows, all but the first -n rows when n < 0
tail(df, k) ==
    LET cnt == IF k >= 0 THEN (IF k < Len(df) THEN k ELSE Len(df))
               ELSE (IF Len(df) + k > 0 THEN Len(df) + k ELSE 0)
    IN SubSeq(df, Len(df) - cnt + 1, Len(df))

(***************************************************************************)
(* insights/analytics.py: expense_trends                                   *)
(***************************************************************************)
\* the key 'YYYY-MM' of a Timestamp; the text is zero padded and of fixed
\* width, so its order as text is the order of the pair <<year, month>>
MonthKey(ts) == <<ts.y, ts.m>>

KeyLess(a, b) == a[1] < b[1] \/ (a[1] = b[1] /\ a[2] < b[2])

RECURSIVE SortedKeysDesc(_)
\* the group keys in descending order
SortedKeysDesc(S) ==
    IF S = {} THEN <<>>
    ELSE LET hi == CHOOSE a \in S : \A b \in S \ {a} : KeyLess(b, a)
         IN <<hi>> \o SortedKeysDesc(S \ {hi})

RECURSIVE SortedKeys(_)
\* groupby(sort=True): the group keys in ascending order
SortedKeys(S) ==
    IF S = {} THEN <<>>
    ELSE LET lo == CHOOSE a \in S : \A b \in S \ {a} : KeyLess(a, b)
         IN <<lo>> \o SortedKeys(S \ {lo})

\* a reduction that keeps the last value of the group instead of adding
GroupLast(cells, acc) ==
    LET vals == SelectSeq(cells, LAMBDA c : c.k \notin {"none", "nan"})
    IN IF vals = <<>> THEN Num(0) ELSE vals[Len(vals)]

RECURSIVE GroupSum(_, _)
\* SeriesGroupBy.sum() over the cells of one group, in row order; acc is the
\* running sum, NaN before the first value.  None and NaN are skipped, numbers
\* add, text concatenates, and text with a number is a TypeError.
GroupSum(cells, acc) ==
    IF cells = <<>> THEN (IF acc.k = "nan" THEN Num(0) ELSE acc)
    ELSE LET c == Head(cells)
         IN CASE c.k \in {"none", "nan"} -> GroupSum(Tail(cells), acc)
              [] acc.k = "nan" -> GroupSum(Tail(cells), c)
              [] acc.k = "num" /\ c.k = "num" ->
                     GroupSum(Tail(cells), Num(acc.v + c.v))
              [] acc.k = "str" /\ c.k = "str" ->
                     GroupSum(Tail(cells), Str(acc.s \o c.s))
              [] OTHER -> [k |-> "TypeError", v |-> 0, s |-> ""]

EmptyFrame == [kind |-> "DataFrame", rows |-> <<>>]

expense_trends(records) ==
    LET df0 == [i \in 1..Len(records) |->
                  [invoice_date |-> to_datetime(records[i].invoice_date),
                   amount |-> records[i].amount]]
        df == SelectRows(df0, {i \in 1..Len(df0) : df0[i].invoice_date.k # "nat"})
        months == SortedKeys({MonthKey(df[i].invoice_date) : i \in 1..Len(df)})
        cellsOf(key) ==
            LET g == SelectRows(df, {i \in 1..Len(df) :
                                       MonthKey(df[i].invoice_date) = key})
            IN [j \in 1..Len(g) |-> g[j].amount]
        trends == [j \in 1..Len(months) |->
                     [month |-> months[j],
                      total_amount |-> GroupSum(cellsOf(months[j]), NaN)]]
    IN IF records = <<>> THEN EmptyFrame
       ELSE IF df = <<>> THEN EmptyFrame
       ELSE IF \E j \in 1..Len(trends) : trends[j].total_amount.k = "TypeError"
            THEN [kind |-> "TypeError", rows |-> <<>>]
            ELSE [kind |-> "DataFrame", rows |-> trends]

(***************************************************************************)
(* insights/analytics.py: top_vendors                                      *)
(***************************************************************************)
\* the place of a vendor name in the order of text: capitals before small letters
StrRank(t) == CASE t = "A" -> 1
                [] t = "B" -> 2
                [] t = "a" -> 3

RECURSIVE SortedNames(_)
\* groupby(sort=True): the vendor names in ascending order of text
SortedNames(S) ==
    IF S = {} THEN <<>>
    ELSE LET lo == CHOOSE a \in S : \A b \in S \ {a} : StrRank(a) < StrRank(b)
         IN <<lo>> \o SortedNames(S \ {lo})

\* an ascending sort
SortValuesAscending(rows) ==
    {[j \in 1..Len(rows) |-> rows[q[j]]] :
        q \in {p \in Permutations(1..Len(rows)) :
                 \A j \in 1..(Len(rows) - 1) :
                    rows[p[j]].total_amount.v <= rows[p[j + 1]].total_amount.v}}

\* sort_values("total_amount", ascending=False) with the default kind, which
\* is not a stable sort: every descending arrangement of the rows is a
\* possible outcome, the order among equal totals is not determined
SortValuesDescending(rows) ==
    {[j \in 1..Len(rows) |-> rows[q[j]]] :
        q \in {p \in Permutations(1..Len(rows)) :
                 \A j \in 1..(Len(rows) - 1) :
                    rows[p[j]].total_amount.v >= rows[p[j + 1]].total_amount.v}}

\* the possible return values of top_vendors(records, n)
top_vendors(records, n) ==
    LET df0 == [i \in 1..Len(records) |->
                  [vendor |-> records[i].vendor,
                   amount |-> to_numeric(records[i].amount)]]
        df == SelectRows(df0, {i \in 1..Len(df0) : df0[i].amount.k # "nan"})
        names == SortedNames({df[i].vendor : i \in 1..Len(df)})
        cellsOf(name) ==
            LET g == SelectRows(df, {i \in 1..Len(df) : df[i].vendor = name})
            IN [j \in 1..Len(g) |-> g[j].amount]
        grouped == [j \in 1..Len(names) |->
                      [vendor |-> names[j],
                       total_amount |-> GroupSum(cellsOf(names[j]), NaN)]]
    IN IF records = <<>> THEN {EmptyFrame}
       ELSE IF df = <<>> THEN {EmptyFrame}
       ELSE {[kind |-> "DataFrame", rows |-> head(p, n)] :
                p \in SortValuesDescending(grouped)}

(***************************************************************************)
(* forecast/prophet_model.py                                               *)
(***************************************************************************)
\* the order of Timestamps
DateLess(a, b) ==
    \/ a.y < b.y
    \/ (a.y = b.y /\ a.m < b.m)
    \/ (a.y = b.y /\ a.m = b.m /\ a.d < b.d)

IsLeap(y) == (y % 4 = 0 /\ y % 100 # 0) \/ y % 400 = 0

DaysInMonth(y, m) ==
    IF m = 2 THEN (IF IsLeap(y) THEN 29 ELSE 28)
    ELSE IF m \in {4, 6, 9, 11} THEN 30 ELSE 31

MonthEnd(y, m) == Timestamp(y, m, DaysInMonth(y, m))

RECURSIVE MonthEndsFrom(_, _, _)
\* k successive month ends, the first one that of month m of year y
MonthEndsFrom(y, m, k) ==
    IF k <= 0 THEN <<>>
    ELSE <<MonthEnd(y, m)>> \o
         (IF m = 12 THEN MonthEndsFrom(y + 1, 1, k - 1)
          ELSE MonthEndsFrom(y, m + 1, k - 1))

\* pd.date_range(start=start, periods=k, freq="M"): k month ends, the first
\* one on or after start (k >= 0)
date_range(start, k) == MonthEndsFrom(start.y, start.m, k)

\* df.sort_values("ds"): ascending, NaT last; the default sort is not stable,
\* so every such arrangement of the rows is a possible outcome
SortValuesDs(df) ==
    {[j \in 1..Len(df) |-> df[q[j]]] :
        q \in {p \in Permutations(1..Len(df)) :
                 \A j \in 1..(Len(df) - 1) :
                    \/ df[p[j + 1]].ds.k = "nat"
                    \/ (df[p[j]].ds.k # "nat"
                          /\ ~DateLess(df[p[j + 1]].ds, df[p[j]].ds))}}

\* df.dropna(subset=["ds", "y"])
dropna_ds_y(df) ==
    SelectRows(df, {i \in 1..Len(df) : df[i].ds.k # "nat" /\ df[i].y.k # "nan"})

\* the possible return values of prepare_data_for_prophet(invoices)
prepare_data_for_prophet(invoices) ==
    LET df0 == [i \in 1..Len(invoices) |->
                  [ds |-> to_datetime(invoices[i].invoice_date),
                   y |-> to_numeric(invoices[i].amount)]]
    IN IF invoices = <<>> THEN {<<>>}
       ELSE {dropna_ds_y(p) : p \in SortValuesDs(df0)}

RECURSIVE SortedDates(_)
\* Prophet.fit: history_dates, the distinct dates of the history in ascending order
SortedDates(S) ==
    IF S = {} THEN <<>>
    ELSE LET lo == CHOOSE a \in S : \A b \in S \ {a} : DateLess(a, b)
         IN <<lo>> \o SortedDates(S \ {lo})

\* Prophet.make_future_dataframe(periods, freq="M"): the history dates and
\* then the month ends after the last of them
make_future_dataframe(history_dates, periods) ==
    LET last_date == history_dates[Len(history_dates)]
        dates == date_range(last_date, periods + 1)
        later == SelectSeq(dates, LAMBDA t : DateLess(last_date, t))
    IN history_dates \o head(later, periods)

\* a threshold of one row
TooFewRowsOne(df) == Len(df) < 1

\* df.shape[0] < 2
TooFewRows(df) == Len(df) < 2

\* run_prophet_forecast on the prepared frame df; a forecast row carries the
\* date ds, the predicted values yhat, yhat_lower, yhat_upper are Prophet's
RunOn(df, periods) ==
    IF TooFewRows(df)
    THEN [kind |-> "None", rows |-> <<>>, fitted |-> FALSE]
    ELSE LET history_dates == SortedDates({df[i].ds : i \in 1..Len(df)})
             future == make_future_dataframe(history_dates, periods)
             forecast == [j \in 1..Len(future) |-> [ds |-> future[j]]]
         IN [kind |-> "DataFrame", rows |-> tail(forecast, periods),
             fitted |-> TRUE]

\* the possible return values of run_prophet_forecast(invoices, periods)
run_prophet_forecast(invoices, periods) ==
    {RunOn(df, periods) : df \in prepare_data_for_prophet(invoices)}

(***************************************************************************)
(* api/app.py: forecast_expenses                                           *)
(***************************************************************************)
\* the response of GET /forecast when run_prophet_forecast returned forecast_df
ForecastResponse(forecast_df) ==
    IF forecast_df.kind = "None"
    THEN [message |-> "Need at least 2 invoices with valid dates and amounts for forecasting.",
          data |-> <<>>]
    ELSE [message |-> "OK",
          data |-> [j \in 1..Len(forecast_df.rows) |->
                      [ds |-> <<forecast_df.rows[j].ds.y, forecast_df.rows[j].ds.m,
                                forecast_df.rows[j].ds.d>>]]]

(***************************************************************************)
(* api/app.py: the insights endpoints                                      *)
(***************************************************************************)
\* the body of the response for the table df: to_dict(orient="records"), the
\* empty list for an empty table; an exception of the helper is not caught
RecordsResponse(df) ==
    IF df.kind = "DataFrame"
    THEN [message |-> "", data |-> df.rows]
    ELSE [message |-> "Internal Server Error", data |-> <<>>]

(***************************************************************************)
(* api/app.py: upload_invoice                                              *)
(***************************************************************************)
\* file.filename.lower() ends with one of the suffixes
LowerEndsWith(filename, suffixes) ==
    LET suffix == CASE filename = "a.png" -> ".png"
                    [] filename = "B.JPG" -> ".jpg"
                    [] filename = "c.pdf" -> ".pdf"
                    [] OTHER -> ".txt"
    IN suffix \in suffixes

\* os.path.join(upload_dir, file.filename)
FilePath(filename) == "temp_uploads/" \o filename

\* datetime.strptime(raw_date, "%m/%d/%Y").date(), None when it raises
strptime(raw_date) == IF raw_date = "01/15/2025" THEN Date(2025, 1, 15) ELSE NoneDate

\* the row of the invoice stored for the fields read from the document
InvoiceRow(fields) ==
    [invoice_date |-> IF fields.invoice_date # "" THEN strptime(fields.invoice_date)
                      ELSE NoneDate,
     vendor |-> IF fields.vendor # "" THEN fields.vendor ELSE "Unknown Vendor",
     amount |-> IF fields.amount.k = "num" /\ fields.amount.v # 0
                THEN fields.amount ELSE Num(0)]

NoUpload == [file_path |-> "", status |-> 0]

(***************************************************************************)
(* Inputs.                                                                 *)
(***************************************************************************)
SeqsUpTo(S, k) == UNION {[1..j -> S] : j \in 0..k}

TrendDates == {NoneDate, BadDateStr, Date(2024, 12, 31), Date(2025, 1, 15),
               DateStr(2025, 1, 31)}
TrendAmounts == {NoneAmt, Num(50), Num(100), Str("abc")}
TrendRecords == [invoice_date : TrendDates, vendor : {"A"}, amount : TrendAmounts]

NoResult == [kind |-> "none", rows |-> <<>>]
NoResponse == [message |-> "", data |-> <<>>]

InitTrends ==
    /\ data \in SeqsUpTo(TrendRecords, MaxLen)
    /\ called = "none"
    /\ arg = 0
    /\ result = NoResult
    /\ response = NoResponse
    /\ temp_uploads = {}
    /\ upload = NoUpload

ExpenseTrends ==
    /\ called = "none"
    /\ called' = "expense_trends"
    /\ result' = expense_trends(data)
    /\ UNCHANGED <<data, arg, response, temp_uploads, upload>>

NextTrends == ExpenseTrends

VendorNames == {"A", "B", "a"}
VendorAmounts == {NoneAmt, Num(50), Num(100), Str("abc"), Str("50")}
VendorRecords == [invoice_date : {Date(2025, 1, 15)}, vendor : VendorNames,
                  amount : VendorAmounts]

InitVendors ==
    /\ data \in SeqsUpTo(VendorRecords, MaxLen)
    /\ called = "none"
    /\ arg = 0
    /\ result = NoResult
    /\ response = NoResponse
    /\ temp_uploads = {}
    /\ upload = NoUpload

TopVendors ==
    /\ called = "none"
    /\ \E n \in -1..MaxN :
          /\ arg' = n
          /\ result' \in top_vendors(data, n)
    /\ called' = "top_vendors"
    /\ UNCHANGED <<data, response, temp_uploads, upload>>

NextVendors == TopVendors

SpecVendors == InitVendors /\ [][NextVendors]_vars

ForecastAmounts == {NoneAmt, Num(100), Str("abc")}
ForecastRecords == [invoice_date : TrendDates, vendor : {"A"}, amount : ForecastAmounts]

InitForecast ==
    /\ data \in SeqsUpTo(ForecastRecords, MaxLen)
    /\ called = "none"
    /\ arg = 0
    /\ result = NoResult
    /\ response = NoResponse
    /\ temp_uploads = {}
    /\ upload = NoUpload

\* a direct call of run_prophet_forecast(data, periods)
RunProphetForecast ==
    /\ called = "none"
    /\ \E periods \in -1..MaxPeriods :
          /\ arg' = periods
          /\ result' \in run_prophet_forecast(data, periods)
    /\ called' = "run_prophet_forecast"
    /\ UNCHANGED <<data, response, temp_uploads, upload>>

\* GET /forecast?periods=..., the invoices of the database being data
ForecastExpenses ==
    /\ called = "none"
    /\ \E periods \in -1..MaxPeriods :
          /\ arg' = periods
          /\ IF data = <<>>
             THEN /\ result' = NoResult
                  /\ response' = [message |-> "No invoices available for forecasting.",
                                  data |-> <<>>]
             ELSE /\ result' \in run_prophet_forecast(data, periods)
                  /\ response' = ForecastResponse(result')
    /\ called' = "forecast_expenses"
    /\ UNCHANGED <<data, temp_uploads, upload>>

NextForecast == RunProphetForecast \/ ForecastExpenses

SpecForecast == InitForecast /\ [][NextForecast]_vars

SpecTrends == InitTrends /\ [][NextTrends]_vars

\* records of two vendors in two months, some without an amount
OrderDates == {Date(2024, 12, 31), Date(2025, 1, 15)}
OrderAmounts == {NoneAmt, Num(50), Num(100)}
OrderRecords == [invoice_date : OrderDates, vendor : {"A", "a"}, amount : OrderAmounts]

InitOrder ==
    /\ data \in SeqsUpTo(OrderRecords, MaxLen)
    /\ called = "none"
    /\ arg = 0
    /\ result = NoResult
    /\ response = NoResponse
    /\ temp_uploads = {}
    /\ upload = NoUpload

NextOrder == ExpenseTrends \/ TopVendors

\* GET /insights/expense-trends, the invoices of the database being data
ExpenseTrendsEndpoint ==
    /\ called = "none"
    /\ called' = "expense_trends_endpoint"
    /\ IF data = <<>>
       THEN /\ result' = NoResult
            /\ response' = [message |-> "", data |-> <<>>]
       ELSE /\ result' = expense_trends(data)
            /\ response' = RecordsResponse(result')
    /\ UNCHANGED <<data, arg, temp_uploads, upload>>

\* GET /insights/top-vendors?limit=..., the invoices of the database being data
TopVendorsEndpoint ==
    /\ called = "none"
    /\ called' = "top_vendors_endpoint"
    /\ \E limit \in -1..MaxN :
          /\ arg' = limit
          /\ IF data = <<>>
             THEN /\ result' = NoResult
                  /\ response' = [message |-> "", data |-> <<>>]
             ELSE /\ result' \in top_vendors(data, limit)
                  /\ response' = RecordsResponse(result')
    /\ UNCHANGED <<data, temp_uploads, upload>>

\* records that may lack a date, an amount or both
DegenerateDates == {NoneDate, BadDateStr, Date(2025, 1, 15)}
DegenerateAmounts == {NoneAmt, Str("abc"), Num(50)}
DegenerateRecords == [invoice_date : DegenerateDates, vendor : {"A"},
                      amount : DegenerateAmounts]

InitDegenerate ==
    /\ data \in SeqsUpTo(DegenerateRecords, MaxLen)
    /\ called = "none"
    /\ arg = 0
    /\ result = NoResult
    /\ response = NoResponse
    /\ temp_uploads = {}
    /\ upload = NoUpload

NextDegenerate ==
    ExpenseTrends \/ TopVendors \/ ExpenseTrendsEndpoint \/ TopVendorsEndpoint

SpecDegenerate == InitDegenerate /\ [][NextDegenerate]_vars

Filenames == {"a.png", "B.JPG", "c.pdf", "d.txt"}

\* what extract_invoice_fields may read from a document ("" and None: not found)
UploadFields == [vendor : {"", "A"},
                 invoice_date : {"", "01/15/2025", "2025-01-15"},
                 amount : {NoneAmt, Num(50)}]

InitUpload ==
    /\ data = <<>>
    /\ called = "none"
    /\ arg = 0
    /\ result = NoResult
    /\ response = NoResponse
    /\ temp_uploads = {}
    /\ upload = NoUpload

\* POST /upload-invoice with a file named filename.  The handler has no await
\* and runs as one step.  ocr_image, ocr_pdf and extract_invoice_fields may
\* raise on a document they cannot read, and a commit may raise; nothing in
\* the handler catches that.
UploadInvoice ==
    /\ Len(data) < MaxLen
    /\ called' = "upload_invoice"
    /\ \E filename \in Filenames :
        LET file_path == FilePath(filename)
            written == temp_uploads \cup {file_path}
        IN IF ~LowerEndsWith(filename, {".png", ".jpg", ".jpeg"})
              /\ ~LowerEndsWith(filename, {".pdf"})
           THEN \* raise HTTPException(status_code=400)
                /\ temp_uploads' = written
                /\ upload' = [file_path |-> file_path, status |-> 400]
                /\ response' = [message |-> "Invalid file format", data |-> <<>>]
                /\ UNCHANGED data
           ELSE \/ \* the OCR, the field extraction or a commit raises
                   /\ temp_uploads' = written
                   /\ upload' = [file_path |-> file_path, status |-> 500]
                   /\ response' = [message |-> "Internal Server Error", data |-> <<>>]
                   /\ UNCHANGED data
                \/ \* the invoice is stored, then os.remove(file_path)
                   \E fields \in UploadFields :
                      /\ data' = Append(data, InvoiceRow(fields))
                      /\ temp_uploads' = written \ {file_path}
                      /\ upload' = [file_path |-> file_path, status |-> 200]
                      /\ response' = [message |-> "Invoice uploaded and processed successfully",
                                      data |-> <<>>]
    /\ UNCHANGED <<arg, result>>

NextUpload == UploadInvoice

SpecUpload == InitUpload /\ [][NextUpload]_vars

SpecOrder == InitOrder /\ [][NextOrder]_vars

(***************************************************************************)
(* What the claims speak of, stated over the input list.                   *)
(***************************************************************************)
\* the record's date is a calendar date (a date object or text that reads as one)
DatePresent(r) == r.invoice_date.k \in {"date", "str"} /\ r.invoice_date.y >= 1

\* the number the record's amount stands for: the number itself, or the
\* number its text spells; 0 with AmountPresent false otherwise
AmountPresent(r) == r.amount.k = "num" \/ (r.amount.k = "str" /\ r.amount.s \in {"50", "100"})
AmountOf(r) == IF r.amount.k = "num" THEN r.amount.v
               ELSE IF r.amount.s = "50" THEN 50
               ELSE IF r.amount.s = "100" THEN 100 ELSE 0

\* every amount of the input is a number or None: the documented input
TypedAmounts == \A i \in 1..Len(data) : data[i].amount.k \in {"none", "num"}

RECURSIVE SumOfRecords(_)
\* the sum of the amounts of the records at the indices I
SumOfRecords(I) ==
    IF I = {} THEN 0
    ELSE LET i == CHOOSE j \in I : TRUE
         IN AmountOf(data[i]) + SumOfRecords(I \ {i})

RECURSIVE SumOfTotals(_)
\* the sum of the numeric total_amount cells of the rows
SumOfTotals(rows) ==
    IF rows = <<>> THEN 0
    ELSE Head(rows).total_amount.v + SumOfTotals(Tail(rows))

MonthOf(r) == <<r.invoice_date.y, r.invoice_date.m>>

TrendsReturned == called = "expense_trends" /\ result.kind = "DataFrame"

(***************************************************************************)
(* C1: the totals returned by expense_trends add up to the sum of the      *)
(* amounts of exactly the records that have a date and an amount; a record *)
(* without a date adds nothing and no amount is counted twice.  Checked on *)
(* the documented input, amounts that are numbers or None.                 *)
(***************************************************************************)
C1_TrendTotalsConserveSum ==
    (called = "expense_trends" /\ TypedAmounts) =>
        /\ result.kind = "DataFrame"
        /\ \A j \in 1..Len(result.rows) : result.rows[j].total_amount.k = "num"
        /\ SumOfTotals(result.rows) =
               SumOfRecords({i \in 1..Len(data) :
                               DatePresent(data[i]) /\ AmountPresent(data[i])})

\* two amounts in one month, and a record with an amount and no date
C1_Witness ==
    /\ TrendsReturned /\ TypedAmounts
    /\ Len(result.rows) = 1
    /\ \E i \in 1..Len(data) : ~DatePresent(data[i]) /\ AmountPresent(data[i])
    /\ \E i, j \in 1..Len(data) :
          /\ i # j /\ DatePresent(data[i]) /\ DatePresent(data[j])
          /\ MonthOf(data[i]) = MonthOf(data[j])
          /\ AmountPresent(data[i]) /\ AmountPresent(data[j])

(***************************************************************************)
(* C6: a month appears in the output of expense_trends only if one of its  *)
(* records has a date and an amount; a month whose amounts are all absent  *)
(* is omitted.                                                             *)
(***************************************************************************)
C6_MonthNeedsAnAmount ==
    (TrendsReturned /\ TypedAmounts) =>
        \A j \in 1..Len(result.rows) :
            \E i \in 1..Len(data) :
                /\ DatePresent(data[i]) /\ AmountPresent(data[i])
                /\ MonthOf(data[i]) = result.rows[j].month

(***************************************************************************)
(* C7: expense_trends returns one row for each distinct calendar month of  *)
(* the dated records, and the month keys strictly increase from row to     *)
(* row, whatever the order of the input.                                   *)
(***************************************************************************)
C7_MonthsStrictlyIncreasing ==
    TrendsReturned =>
        /\ \A j \in 1..(Len(result.rows) - 1) :
              KeyLess(result.rows[j].month, result.rows[j + 1].month)
        /\ {result.rows[j].month : j \in 1..Len(result.rows)} =
              {MonthOf(data[i]) : i \in {k \in 1..Len(data) : DatePresent(data[k])}}

\* the later month comes first in the input, and both months are returned
C7_Witness ==
    /\ TrendsReturned
    /\ Len(result.rows) = 2
    /\ \E i, j \in 1..Len(data) :
          /\ i < j /\ DatePresent(data[i]) /\ DatePresent(data[j])
          /\ KeyLess(MonthOf(data[j]), MonthOf(data[i]))

(***************************************************************************)
(* C9: an amount that is no number never makes the aggregation fail:       *)
(* expense_trends and top_vendors return a table, and the amount counts as *)
(* absent, so every total is the sum of the group's other amounts.         *)
(***************************************************************************)
C9_UncoercibleAmountIsAbsent ==
    /\ called = "expense_trends" =>
          /\ result.kind = "DataFrame"
          /\ \A j \in 1..Len(result.rows) :
                result.rows[j].total_amount =
                  Num(SumOfRecords({i \in 1..Len(data) :
                        /\ DatePresent(data[i]) /\ AmountPresent(data[i])
                        /\ MonthOf(data[i]) = result.rows[j].month}))
    /\ called = "top_vendors" =>
          /\ result.kind = "DataFrame"
          /\ \A j \in 1..Len(result.rows) :
                result.rows[j].total_amount =
                  Num(SumOfRecords({i \in 1..Len(data) :
                        /\ AmountPresent(data[i])
                        /\ data[i].vendor = result.rows[j].vendor}))

(***************************************************************************)
(* What the claims about top_vendors speak of.                             *)
(***************************************************************************)
\* the vendors that have a record with a present amount
RankedVendors == {data[i].vendor : i \in {k \in 1..Len(data) : AmountPresent(data[k])}}

\* the sum of the present amounts of vendor name
VendorTotal(name) ==
    SumOfRecords({i \in 1..Len(data) : AmountPresent(data[i]) /\ data[i].vendor = name})

\* the position of the first record of vendor name that has an amount
FirstRecord(name) ==
    CHOOSE i \in 1..Len(data) :
        /\ AmountPresent(data[i]) /\ data[i].vendor = name
        /\ \A k \in 1..(i - 1) : ~(AmountPresent(data[k]) /\ data[k].vendor = name)

Min(a, b) == IF a < b THEN a ELSE b

RowVendors == {result.rows[j].vendor : j \in 1..Len(result.rows)}

VendorsReturned == called = "top_vendors" /\ result.kind = "DataFrame"

(***************************************************************************)
(* C2: top_vendors(records, n) with n >= 1 returns min(n, G) rows, G the   *)
(* number of vendors with a present amount; each row carries its vendor's  *)
(* sum of present amounts, the totals never increase from row to row, and  *)
(* no vendor left out has a larger sum than a vendor returned.             *)
(***************************************************************************)
C2_TopVendorsRanking ==
    (called = "top_vendors" /\ arg >= 1) =>
        /\ result.kind = "DataFrame"
        /\ Len(result.rows) = Min(arg, Cardinality(RankedVendors))
        /\ Cardinality(RowVendors) = Len(result.rows)
        /\ \A j \in 1..Len(result.rows) :
              /\ result.rows[j].vendor \in RankedVendors
              /\ result.rows[j].total_amount = Num(VendorTotal(result.rows[j].vendor))
        /\ \A j \in 1..(Len(result.rows) - 1) :
              result.rows[j].total_amount.v >= result.rows[j + 1].total_amount.v
        /\ \A out \in RankedVendors \ RowVendors : \A in \in RowVendors :
              VendorTotal(out) <= VendorTotal(in)

\* three vendors, one of them with a smaller sum cut off by n = 2
C2_Witness ==
    /\ VendorsReturned /\ arg = 2
    /\ Cardinality(RankedVendors) = 3
    /\ Len(result.rows) = 2
    /\ \E out \in RankedVendors \ RowVendors :
          VendorTotal(out) < result.rows[2].total_amount.v

(***************************************************************************)
(* C8: vendors with equal total_amount are ordered by the position of      *)
(* their first record in the input, and when the cut at n falls inside a   *)
(* tie the vendors met first are the ones kept.                            *)
(***************************************************************************)
C8_TiesInEncounterOrder ==
    (VendorsReturned /\ arg >= 1) =>
        /\ \A j, k \in 1..Len(result.rows) :
              (j < k /\ result.rows[j].total_amount = result.rows[k].total_amount)
                => FirstRecord(result.rows[j].vendor) < FirstRecord(result.rows[k].vendor)
        /\ \A out \in RankedVendors \ RowVendors : \A in \in RowVendors :
              VendorTotal(out) = VendorTotal(in) => FirstRecord(in) < FirstRecord(out)

(***************************************************************************)
(* C5: a call with n < 1 or with a horizon < 1 is rejected before any      *)
(* computation: it returns no ranking and no forecast table computed from  *)
(* the data.                                                               *)
(***************************************************************************)
C5_MisuseIsRejected ==
    (called \in {"top_vendors", "run_prophet_forecast", "forecast_expenses"} /\ arg < 1) =>
        /\ ~(result.kind = "DataFrame" /\ result.rows # <<>>)
        /\ response.data = <<>>

(***************************************************************************)
(* What the claims about the forecast speak of.                            *)
(***************************************************************************)
\* the records that stay after dropping missing dates and amounts
ValidRecords == {i \in 1..Len(data) : DatePresent(data[i]) /\ AmountPresent(data[i])}

DayOf(r) == <<r.invoice_date.y, r.invoice_date.m, r.invoice_date.d>>

DayLess(a, b) ==
    a[1] < b[1] \/ (a[1] = b[1] /\ (a[2] < b[2] \/ (a[2] = b[2] /\ a[3] < b[3])))

\* the last historical date
LastDay == CHOOSE a \in {DayOf(data[i]) : i \in ValidRecords} :
              \A i \in ValidRecords : ~DayLess(a, DayOf(data[i]))

RowDay(row) == <<row.ds.y, row.ds.m, row.ds.d>>

\* the number of months from month a to month b
MonthsBetween(a, b) == (b[1] * 12 + b[2]) - (a[1] * 12 + a[2])

CalledForecast == called \in {"run_prophet_forecast", "forecast_expenses"}

(***************************************************************************)
(* C3: with fewer than 2 records left after dropping every record with a   *)
(* missing or unparsable date or amount, run_prophet_forecast returns None *)
(* and fits no model; the endpoint then answers with no data.              *)
(***************************************************************************)
C3_FewerThanTwoIsInsufficient ==
    (CalledForecast /\ Cardinality(ValidRecords) < 2) =>
        /\ called = "run_prophet_forecast" =>
              result.kind = "None" /\ ~result.fitted
        /\ called = "forecast_expenses" =>
              /\ response.data = <<>> /\ response.message # "OK"
              /\ data # <<>> => (result.kind = "None" /\ ~result.fitted)

\* one valid record among records dropped for their date and for their amount
C3_Witness ==
    /\ called = "run_prophet_forecast" /\ result.kind = "None"
    /\ Cardinality(ValidRecords) = 1
    /\ \E i \in 1..Len(data) : ~DatePresent(data[i]) /\ AmountPresent(data[i])
    /\ \E i \in 1..Len(data) : DatePresent(data[i]) /\ ~AmountPresent(data[i])

(***************************************************************************)
(* C4: when all valid records fall in one and the same period (month),     *)
(* for example two invoices of the same date, run_prophet_forecast reports *)
(* insufficient data (None) and fits no model.                             *)
(***************************************************************************)
C4_OnePeriodIsInsufficient ==
    (called = "run_prophet_forecast" /\ arg >= 1
       /\ Cardinality({MonthOf(data[i]) : i \in ValidRecords}) < 2) =>
        result.kind = "None"

(***************************************************************************)
(* C10: with at least 2 valid historical points and a horizon h >= 1,      *)
(* run_prophet_forecast returns exactly h rows, the h month ends that      *)
(* follow the last historical date; no row is at or before that date.      *)
(***************************************************************************)
C10_ExactlyTheFuturePeriods ==
    (called = "run_prophet_forecast" /\ Cardinality(ValidRecords) >= 2 /\ arg >= 1) =>
        /\ result.kind = "DataFrame"
        /\ Len(result.rows) = arg
        /\ \A j \in 1..Len(result.rows) :
              /\ DayLess(LastDay, RowDay(result.rows[j]))
              /\ result.rows[j].ds.d = DaysInMonth(result.rows[j].ds.y, result.rows[j].ds.m)
              /\ MonthsBetween(LastDay, RowDay(result.rows[j])) =
                    (IF LastDay[3] = DaysInMonth(LastDay[1], LastDay[2]) THEN j ELSE j - 1)

\* two historical dates, the last one a month end, and a horizon of 2
C10_Witness ==
    /\ called = "run_prophet_forecast" /\ result.kind = "DataFrame" /\ arg = 2
    /\ Len(result.rows) = 2
    /\ Cardinality({DayOf(data[i]) : i \in ValidRecords}) >= 2
    /\ LastDay[3] = DaysInMonth(LastDay[1], LastDay[2])

(***************************************************************************)
(* C11: expense_trends and top_vendors do not depend on the order of the   *)
(* input: for every permutation of the records the returned rows (keys,    *)
(* totals and row order) are the same.  For top_vendors, whose sort leaves *)
(* the order of equal totals open, the table returned is also a table the  *)
(* call can return on every permutation of the input.  Checked on the      *)
(* documented input, amounts that are numbers or None.                     *)
(***************************************************************************)
Permuted(records, p) == [j \in 1..Len(records) |-> records[p[j]]]

NoDates == \A i \in 1..Len(data) : ~DatePresent(data[i])

NoAmounts == \A i \in 1..Len(data) : ~AmountPresent(data[i])

C12_DegenerateInputIsEmpty ==
    /\ (called = "expense_trends" /\ NoDates) => result = EmptyFrame
    /\ (called = "top_vendors" /\ NoAmounts) => result = EmptyFrame
    /\ (called = "expense_trends_endpoint" /\ NoDates) =>
          /\ response = [message |-> "", data |-> <<>>]
          /\ result \in {NoResult, EmptyFrame}
    /\ (called = "top_vendors_endpoint" /\ NoAmounts) =>
          /\ response = [message |-> "", data |-> <<>>]
          /\ result \in {NoResult, EmptyFrame}

\* the endpoint answers [] for records whose amounts are None and text
C12_Witness ==
    /\ called = "top_vendors_endpoint" /\ arg >= 1
    /\ Len(data) >= 2 /\ NoAmounts
    /\ \E i \in 1..Len(data) : data[i].amount.k = "none"
    /\ \E i \in 1..Len(data) : data[i].amount.k = "str"
    /\ result = EmptyFrame
    /\ response.data = <<>>

(***************************************************************************)
(* C13: every upload_invoice request removes the temporary file it wrote   *)
(* under temp_uploads before it ends, whatever the outcome (processed,     *)
(* rejected with status 400, failed in the OCR or the database step): the  *)
(* file of a finished request does not remain.                             *)
(***************************************************************************)
C13_TempFileRemoved ==
    called = "upload_invoice" => upload.file_path \notin temp_uploads

====
